---- MODULE Spec2Model ----
(***************************************************************************)
(* ConversationSearcher (backend/app/search.py): the per-folder index      *)
(* coordinator, its build pool, and the search entry point with its        *)
(* result cache, as a state machine.                                       *)
(*                                                                         *)
(* Every `with self._lock:` section of the code is one atomic step, with   *)
(* one exception that the code itself makes: ensure_index runs the whole   *)
(* synchronous build inside its lock section, so there the lock is a       *)
(* variable that stays held over several steps.                            *)
(***************************************************************************)
EXTENDS Integers, Sequences, FiniteSets, TLC

\* ---------------------------------------------------------------- bounds
\* Total number of public calls (schedule_build, ensure_index, search,
\* invalidate, invalidate_all) made by the host over one behaviour.
MaxCalls == 3
\* The readings of the wall clock (time.time()) taken for one folder are 1..MaxTime.
MaxTime == 2
\* The number of documents a build finds in a folder.
NumDocs == 2
\* Invalidations made by a polling host.
MaxInvalidations == 1

\* ------------------------------------------------------------- constants
\* _default_build_workers: max(2, min(4, cpu // 2)); the smallest pool.
BuildWorkers == 2
\* search(): default limit and the clamp bounds of eff_limit.
DefaultLimit == 50
LimitMax == 200
\* self._search_cache_max
search_cache_max == 256

Callers == {1, 2}
Workers == 1..BuildWorkers

\* Folder names as the host passes them: sequences of characters.
RawNames == {<< >>, <<"a">>, <<" ", "a">>, <<"b">>}
\* Raw query strings.
RawQueries == {<< >>, <<" ">>, <<"X">>}
\* The limit argument of search is a record: int() turns it into val, or (int
\* FALSE) raises ValueError on it, as on a text without digits; val is then
\* not used.
InvalidLimit == [int |-> FALSE, val |-> 0]

\* Limits passed to search.
Limits == {[int |-> TRUE, val |-> DefaultLimit]}
\* str(e) of the exceptions a build can raise.
BuildErrTexts == {<< >>, <<"folder", "not", "found">>}
\* What scanner.get_special_folder_cache reports for the folder being built.
Kinds == {"chatgpt", "claude", "gemini"}

NoError == <<"<absent>">>
StillBuildingText == <<"index", "is", "still", "building">>
BuildFailedText == <<"index", "build", "failed">>
\* An index is [age, built_at, docs, postings]. built_at is the program's
\* field; docs is len(idx.docs); postings is the set of doc_index values that
\* the postings (token_index, token_prefix_index, cjk_char_index) were built
\* from. age is history, the number of invalidations of the folder since the
\* build that produced the index entered _build_index (0: the build read the
\* documents after the latest invalidation). Search results carry the age of
\* the index they were computed on.
NoIndex == [age |-> -1, built_at |-> 0, docs |-> 0, postings |-> {}]
NoRes == [age |-> -1]
Free == 0

\* ------------------------------------------------------- pure functions
\* str.isspace() on the characters used here
IsSpace(ch) == ch \in {" ", "\n"}

RECURSIVE lstrip(_)
lstrip(s) == IF s # << >> /\ IsSpace(Head(s)) THEN lstrip(Tail(s)) ELSE s

RECURSIVE rstrip(_)
rstrip(s) == IF s # << >> /\ IsSpace(s[Len(s)]) THEN rstrip(SubSeq(s, 1, Len(s) - 1)) ELSE s

\* (folder or "").strip()
strip(s) == rstrip(lstrip(s))

Lower(ch) == IF ch = "X" THEN "x" ELSE IF ch = "A" THEN "a" ELSE ch


Max(a, b) == IF a >= b THEN a ELSE b
Min(a, b) == IF a <= b THEN a ELSE b

\* eff_limit = max(1, min(int(limit or 50), 200))
eff_limit(limit) == Max(1, Min(IF limit = 0 THEN DefaultLimit ELSE limit, LimitMax))

Folders == {strip(r) : r \in RawNames} \ {<< >>}

\* 'still building' in str(e).lower()
IsStillBuildingText(msg) ==
    \E i \in 1..Len(msg) - 1 : msg[i] = "still" /\ msg[i + 1] = "building"

\* ------------------------------------------------------------ characters
\* A text is a sequence of characters, a character a one-element name. The
\* characters that occur in the modelled corpus and queries, by code point:
\* "U4E00" and "U9FFF" are the first and the last CJK Unified Ideograph,
\* "UA000" the character right after them.
CodePoint(ch) ==
    CASE ch = "\n" -> 10 [] ch = " " -> 32 [] ch = "-" -> 45 [] ch = "1" -> 49 [] ch = "A" -> 65 [] ch = "X" -> 88
      [] ch = "a" -> 97 [] ch = "b" -> 98 [] ch = "c" -> 99 [] ch = "d" -> 100
      [] ch = "e" -> 101 [] ch = "n" -> 110 [] ch = "x" -> 120
      [] ch = "U4E00" -> 19968 [] ch = "U9FFF" -> 40959 [] ch = "UA000" -> 40960

\* _ASCII_TOKEN_RE's character class [0-9A-Za-z]
IsTokenChar(ch) ==
    \/ (48 <= CodePoint(ch) /\ CodePoint(ch) <= 57)
    \/ (65 <= CodePoint(ch) /\ CodePoint(ch) <= 90)
    \/ (97 <= CodePoint(ch) /\ CodePoint(ch) <= 122)

\* _is_cjk: "一" <= ch <= "鿿"
is_cjk(ch) == 19968 <= CodePoint(ch) /\ CodePoint(ch) <= 40959

\* _ASCII_TOKEN_RE: a token has at least two characters
TokenMinLen == 2
ASCII_PREFIX_MIN_LEN == 3
ASCII_PREFIX_MAX_LEN == 8
ASCII_STOPWORDS ==
    {<<"a">>,
     <<"a", "n">>,
     <<"a", "n", "d">>,
     <<"a", "r", "e">>,
     <<"a", "s">>,
     <<"a", "t">>,
     <<"b", "e">>,
     <<"b", "y">>,
     <<"f", "o", "r">>,
     <<"f", "r", "o", "m">>,
     <<"i", "n">>,
     <<"i", "s">>,
     <<"i", "t">>,
     <<"o", "f">>,
     <<"o", "n">>,
     <<"o", "r">>,
     <<"t", "h", "a", "t">>,
     <<"t", "h", "e">>,
     <<"t", "h", "i", "s">>,
     <<"t", "o">>,
     <<"w", "i", "t", "h">>}
\* _search_in_index: thresholds and scores
PrimaryMinLen == 3
LongQueryLen == 28
LongQueryTokens == 3
CjkTermCap == 8
LongTokenCap == 6
TitleScore == 100
LongTitleScore == 80
PosScoreMax == 50

\* s.lower()
lower(s) == [i \in 1..Len(s) |-> Lower(s[i])]

\* re.sub(r"\s+", " ", s): every run of whitespace becomes one space
RECURSIVE collapse_space(_)
collapse_space(s) ==
    IF s = << >> THEN s
    ELSE IF IsSpace(s[1]) /\ Len(s) >= 2 /\ IsSpace(s[2]) THEN collapse_space(Tail(s))
    ELSE <<IF IsSpace(s[1]) THEN " " ELSE s[1]>> \o collapse_space(Tail(s))

\* _normalize_space
normalize_space(s) == collapse_space(strip(s))

\* (mutation) _normalize_query without the strip
MutNormalizeNoStrip(q) == lower(q)

\* _normalize_query
normalize_query(q) == lower(normalize_space(q))

\* text.find(q): the 0-based position of the first occurrence, or -1
find(text, q) ==
    LET at == {i \in 0..(Len(text) - Len(q)) : SubSeq(text, i + 1, i + Len(q)) = q}
    IN  IF at = {} THEN -1 ELSE CHOOSE i \in at : \A j \in at : i <= j

\* The last character of the run of token characters that starts at i.
RunEnd(text, i) ==
    CHOOSE j \in i..Len(text) :
        /\ \A k \in i..j : IsTokenChar(text[k])
        /\ j = Len(text) \/ ~IsTokenChar(text[j + 1])

\* _ASCII_TOKEN_RE.findall(text): the regex scans from the left and matches
\* greedily, so it yields the runs of token characters of length >= 2.
RECURSIVE findall_from(_, _)
findall_from(text, i) ==
    IF i > Len(text) THEN << >>
    ELSE IF ~IsTokenChar(text[i]) THEN findall_from(text, i + 1)
    ELSE IF RunEnd(text, i) - i + 1 >= TokenMinLen
         THEN <<SubSeq(text, i, RunEnd(text, i))>> \o findall_from(text, RunEnd(text, i) + 1)
         ELSE findall_from(text, RunEnd(text, i) + 1)

findall(text) == findall_from(text, 1)

\* list(dict.fromkeys(xs)): first occurrences, in order
RECURSIVE fromkeys(_, _)
fromkeys(xs, seen) ==
    IF xs = << >> THEN << >>
    ELSE IF Head(xs) \in seen THEN fromkeys(Tail(xs), seen)
    ELSE <<Head(xs)>> \o fromkeys(Tail(xs), seen \cup {Head(xs)})

SeqRange(s) == {s[i] : i \in 1..Len(s)}

\* ---------------------------------------------------------- postings maps
\* A postings map is a function from keys to sets of doc_index values.
EmptyMap == [k \in {} |-> {}]

\* m.get(k), read for truthiness: a missing key and an empty set are alike
MapGet(m, k) == IF k \in DOMAIN m THEN m[k] ELSE {}

\* for k in keys: s = m.get(k); if s is None: s = set(); m[k] = s;
\* s.add(doc_index)
MapAddAll(m, keys, di) ==
    [k \in DOMAIN m \cup keys |-> IF k \in keys THEN MapGet(m, k) \cup {di} ELSE m[k]]

\* (mutation) prefixes from two characters on
MutPrefixKeysFrom2(tok) ==
    {SubSeq(tok, 1, plen) : plen \in TokenMinLen..Min(ASCII_PREFIX_MAX_LEN, Len(tok))}

\* for plen in range(_ASCII_PREFIX_MIN_LEN, min(_ASCII_PREFIX_MAX_LEN, len(tok)) + 1)
PrefixKeys(tok) ==
    IF Len(tok) >= ASCII_PREFIX_MIN_LEN
    THEN {SubSeq(tok, 1, plen) :
              plen \in ASCII_PREFIX_MIN_LEN..Min(ASCII_PREFIX_MAX_LEN, Len(tok))}
    ELSE {}

\* The searchable text of a source document [title, body]: the title, a
\* newline, the text of the messages (f"{title_from_name}\n{body_text}" for
\* a file, extract_search_text_from_normalized for a special folder).
Blob(d) == d.title \o <<"\n">> \o d.body

\* The SearchDoc made of a source document:
\* text_view = _normalize_space(blob), text_norm = blob_view.lower().
SearchDoc(d) ==
    [title |-> d.title,
     text_view |-> normalize_space(Blob(d)),
     text_norm |-> lower(normalize_space(Blob(d)))]

EmptyIndex ==
    [docs |-> << >>, token_index |-> EmptyMap,
     token_prefix_index |-> EmptyMap, cjk_char_index |-> EmptyMap]

\* (mutation) _rebuild_token_indexes without the prefix postings
MutRebuildDocNoPrefix(idx, di) ==
    [idx EXCEPT
        !.token_index = MapAddAll(@, SeqRange(findall(idx.docs[di + 1].text_norm)), di),
        !.cjk_char_index =
            MapAddAll(@, {<<ch>> : ch \in {c \in SeqRange(idx.docs[di + 1].text_norm) :
                                              is_cjk(c)}}, di)]

\* _rebuild_token_indexes, loop body for (doc_index, doc)
RebuildDoc(idx, di) ==
    LET blob_norm == idx.docs[di + 1].text_norm
        toks == SeqRange(findall(blob_norm))
    IN  [idx EXCEPT
            !.token_index = MapAddAll(@, toks, di),
            !.token_prefix_index = MapAddAll(@, UNION {PrefixKeys(t) : t \in toks}, di),
            !.cjk_char_index =
                MapAddAll(@, {<<ch>> : ch \in {c \in SeqRange(blob_norm) : is_cjk(c)}}, di)]

RECURSIVE RebuildFrom(_, _)
RebuildFrom(idx, di) ==
    IF di >= Len(idx.docs) THEN idx ELSE RebuildFrom(RebuildDoc(idx, di), di + 1)

\* _rebuild_token_indexes(idx): the three maps are emptied and rebuilt from
\* enumerate(idx.docs)
RebuildTokenIndexes(idx) ==
    RebuildFrom([idx EXCEPT !.token_index = EmptyMap, !.token_prefix_index = EmptyMap,
                            !.cjk_char_index = EmptyMap], 0)

\* _build_index, Claude and Gemini branches: all documents are appended,
\* then self._rebuild_token_indexes(new_idx)
BuildSpecial(corpus) ==
    RebuildTokenIndexes([EmptyIndex EXCEPT
        !.docs = [i \in 1..Len(corpus) |-> SearchDoc(corpus[i])]])

\* _build_index, per-file (ChatGPT) loop body: doc_index = len(new_idx.docs),
\* the document is appended and its postings are added at once
IndexFile(idx, d) ==
    LET doc_index == Len(idx.docs)
        doc == SearchDoc(d)
        toks == SeqRange(findall(doc.text_norm))
    IN  [docs |-> Append(idx.docs, doc),
         token_index |-> MapAddAll(idx.token_index, toks, doc_index),
         token_prefix_index |->
             MapAddAll(idx.token_prefix_index,
                       UNION {PrefixKeys(t) : t \in toks}, doc_index),
         cjk_char_index |->
             MapAddAll(idx.cjk_char_index,
                       {<<ch>> : ch \in {c \in SeqRange(doc.text_norm) : is_cjk(c)}},
                       doc_index)]

\* (mutation) the files are indexed last to first
RECURSIVE MutBuildFilesReversed(_, _)
MutBuildFilesReversed(idx, files) ==
    IF files = << >> THEN idx
    ELSE MutBuildFilesReversed(IndexFile(idx, files[Len(files)]),
                               SubSeq(files, 1, Len(files) - 1))

RECURSIVE BuildFilesFrom(_, _)
BuildFilesFrom(idx, files) ==
    IF files = << >> THEN idx ELSE BuildFilesFrom(IndexFile(idx, Head(files)), Tail(files))

\* _build_index, per-file branch over the files of the folder
BuildFiles(corpus) == BuildFilesFrom(EmptyIndex, corpus)

\* _build_index by kind of source
BuildIndexOf(kind, corpus) ==
    IF kind = "chatgpt" THEN BuildFiles(corpus) ELSE BuildSpecial(corpus)

\* ------------------------------------------------------- _search_in_index
\* Optional[Set[int]]: None, or a set of doc_index values
None == [none |-> TRUE, set |-> {}]
Some(s) == [none |-> FALSE, set |-> s]

\* `for di in candidates`: CPython walks a set of small non-negative ints in
\* increasing order (an int hashes to itself, and the table has more slots
\* than there are documents here).
RECURSIVE SetIter(_)
SetIter(s) ==
    IF s = {} THEN << >>
    ELSE LET lo == CHOOSE i \in s : \A j \in s : i <= j
         IN  <<lo>> \o SetIter(s \ {lo})

\* for ch in cjk_terms[:8]: ... (with its two breaks)
RECURSIVE CjkLoop(_, _, _)
CjkLoop(idx, terms, candidates) ==
    IF terms = << >> THEN candidates
    ELSE LET posting == MapGet(idx.cjk_char_index, <<Head(terms)>>)
             c == IF candidates.none THEN posting ELSE candidates.set \cap posting
         IN  IF posting = {} THEN Some({})
             ELSE IF c = {} THEN Some(c)
             ELSE CjkLoop(idx, Tail(terms), Some(c))

\* posting = idx.token_index.get(tok); the prefix postings are consulted only
\* when that is missing or empty and the token has at least 3 characters
TokenPosting(idx, tok) ==
    IF MapGet(idx.token_index, tok) = {} /\ Len(tok) >= ASCII_PREFIX_MIN_LEN
    THEN MapGet(idx.token_prefix_index,
                IF Len(tok) <= ASCII_PREFIX_MAX_LEN THEN tok
                ELSE SubSeq(tok, 1, ASCII_PREFIX_MAX_LEN))
    ELSE MapGet(idx.token_index, tok)

\* for tok in primary_tokens: ... ; ok is FALSE when the loop broke on a token
\* without postings
RECURSIVE TokenLoop(_, _)
TokenLoop(idx, toks) ==
    IF toks = << >> THEN [ok |-> TRUE, postings |-> << >>]
    ELSE IF TokenPosting(idx, Head(toks)) = {} THEN [ok |-> FALSE, postings |-> << >>]
    ELSE LET rest == TokenLoop(idx, Tail(toks))
         IN  [ok |-> rest.ok, postings |-> <<TokenPosting(idx, Head(toks))>> \o rest.postings]

\* postings.sort(key=lambda x: x[0]): stable, by size
RECURSIVE InsertBySize(_, _)
InsertBySize(sorted, p) ==
    IF sorted = << >> THEN <<p>>
    ELSE IF Cardinality(Head(sorted)) <= Cardinality(p)
         THEN <<Head(sorted)>> \o InsertBySize(Tail(sorted), p)
         ELSE <<p>> \o sorted

RECURSIVE SortBySize(_)
SortBySize(ps) ==
    IF ps = << >> THEN << >>
    ELSE InsertBySize(SortBySize(SubSeq(ps, 1, Len(ps) - 1)), ps[Len(ps)])

\* for _, posting in postings: candidates = ... ; if not candidates: break
RECURSIVE IntersectLoop(_, _)
IntersectLoop(ps, candidates) ==
    IF ps = << >> THEN candidates
    ELSE LET c == IF candidates.none THEN Head(ps) ELSE candidates.set \cap Head(ps)
         IN  IF c = {} THEN Some(c) ELSE IntersectLoop(Tail(ps), Some(c))

\* (mutation) every character of the query is looked up in the CJK postings
MutCjkTermsAllChars(q_norm) == fromkeys(q_norm, {})

cjk_terms(q_norm) == fromkeys(SelectSeq(q_norm, is_cjk), {})

token_terms(q_norm) == fromkeys(findall(q_norm), {})

IsPrimary(t) == Len(t) >= PrimaryMinLen /\ t \notin ASCII_STOPWORDS

primary_tokens(q_norm) ==
    IF SelectSeq(token_terms(q_norm), IsPrimary) = << >> THEN token_terms(q_norm)
    ELSE SelectSeq(token_terms(q_norm), IsPrimary)

is_long_ascii_query(q_norm) ==
    /\ Len(q_norm) >= LongQueryLen
    /\ Len(primary_tokens(q_norm)) >= LongQueryTokens
    /\ cjk_terms(q_norm) = << >>

\* The candidate set: CJK postings first, then the token postings, then
\* every document.
Candidates(idx, q_norm) ==
    LET afterCjk == IF cjk_terms(q_norm) # << >>
                    THEN CjkLoop(idx, SubSeq(cjk_terms(q_norm), 1,
                                             Min(CjkTermCap, Len(cjk_terms(q_norm)))), None)
                    ELSE None
        loop == TokenLoop(idx, primary_tokens(q_norm))
        afterTok ==
            IF (afterCjk.none \/ afterCjk.set = {}) /\ primary_tokens(q_norm) # << >>
            THEN IF ~loop.ok THEN Some({})
                 ELSE IF afterCjk.none /\ loop.postings # << >>
                      THEN IntersectLoop(SortBySize(loop.postings), afterCjk)
                      ELSE afterCjk
            ELSE afterCjk
    IN  IF afterTok.none THEN 0..(Len(idx.docs) - 1) ELSE afterTok.set

\* best position of primary_tokens[:6] in the text, or -1
BestPos(text_norm, toks) ==
    LET ps == {find(text_norm, toks[i]) : i \in 1..Min(LongTokenCap, Len(toks))} \ {-1}
    IN  IF ps = {} THEN -1 ELSE CHOOSE p \in ps : \A r \in ps : p <= r

\* (mutation) a title match scores like a match late in the body
MutTitleBonusSmall(title_norm, q_norm) == IF find(title_norm, q_norm) >= 0 THEN 1 ELSE 0

\* if q_norm in title_norm: score += 100
TitleBonus(title_norm, q_norm) == IF find(title_norm, q_norm) >= 0 THEN TitleScore ELSE 0

\* long queries: +80 when every primary token is in the title
LongTitleBonus(title_norm, q_norm) ==
    IF /\ is_long_ascii_query(q_norm)
       /\ primary_tokens(q_norm) # << >>
       /\ \A i \in 1..Len(primary_tokens(q_norm)) :
              find(title_norm, primary_tokens(q_norm)[i]) >= 0
    THEN LongTitleScore ELSE 0

\* if pos >= 0: score += max(0, 50 - min(pos, 50))
PosBonus(pos) == IF pos >= 0 THEN Max(0, PosScoreMax - Min(pos, PosScoreMax)) ELSE 0

\* pos_phrase: the position of the whole query for other than long queries
PosPhrase(text_norm, q_norm) ==
    IF is_long_ascii_query(q_norm) THEN -1 ELSE find(text_norm, q_norm)

\* (mutation) every candidate is kept
MutKeptAlways(text_norm, q_norm) == TRUE

\* `if pos_phrase < 0: continue`, which only queries that are not long reach
Kept(text_norm, q_norm) ==
    is_long_ascii_query(q_norm) \/ PosPhrase(text_norm, q_norm) >= 0

\* The body of `for di in candidates`: whether the document is a hit, and
\* its score.
Verify(doc, q_norm) ==
    LET title_norm == normalize_query(doc.title)
        pos_phrase == PosPhrase(doc.text_norm, q_norm)
        pos == IF is_long_ascii_query(q_norm) /\ pos_phrase < 0
                  /\ primary_tokens(q_norm) # << >>
               THEN BestPos(doc.text_norm, primary_tokens(q_norm)) ELSE pos_phrase
    IN  [hit |-> Kept(doc.text_norm, q_norm),
         score |-> TitleBonus(title_norm, q_norm) + LongTitleBonus(title_norm, q_norm)
                   + PosBonus(pos)]

RECURSIVE Hits(_, _, _)
Hits(idx, q_norm, order) ==
    IF order = << >> THEN << >>
    ELSE LET v == Verify(idx.docs[Head(order) + 1], q_norm)
         IN  (IF v.hit THEN <<[score |-> v.score, di |-> Head(order)]>> ELSE << >>)
             \o Hits(idx, q_norm, Tail(order))

\* (mutation) the hits are sorted by increasing score
RECURSIVE MutInsertAscending(_, _)
MutInsertAscending(sorted, h) ==
    IF sorted = << >> THEN <<h>>
    ELSE IF Head(sorted).score <= h.score
         THEN <<Head(sorted)>> \o MutInsertAscending(Tail(sorted), h)
         ELSE <<h>> \o sorted

\* hits.sort(key=lambda x: x[0], reverse=True): stable, by decreasing score
RECURSIVE InsertByScore(_, _)
InsertByScore(sorted, h) ==
    IF sorted = << >> THEN <<h>>
    ELSE IF Head(sorted).score >= h.score
         THEN <<Head(sorted)>> \o InsertByScore(Tail(sorted), h)
         ELSE <<h>> \o sorted

RECURSIVE SortByScore(_)
SortByScore(hs) ==
    IF hs = << >> THEN << >>
    ELSE InsertByScore(SortByScore(SubSeq(hs, 1, Len(hs) - 1)), hs[Len(hs)])

\* _search_in_index(idx, q_norm, limit) on an index with its documents and
\* postings: the results carry the document (its doc_index stands for
\* chat_id), its title and its score.
SearchInIndex(idx, q_norm, limit) ==
    LET hits == SortByScore(Hits(idx, q_norm, SetIter(Candidates(idx, q_norm))))
    IN  [i \in 1..Min(limit, Len(hits)) |->
            [id |-> hits[i].di, title |-> idx.docs[hits[i].di + 1].title,
             score |-> hits[i].score]]

\* --------------------------------------------------- corpus and queries
\* Words used in the documents and the queries.
W_abx == <<"a", "b", "x">>
W_abc9 == <<"a", "b", "c", "a", "b", "c", "a", "b", "c">>
W_bcd9 == <<"b", "c", "d", "b", "c", "d", "b", "c", "d">>
W_cde9 == <<"c", "d", "e", "c", "d", "e", "c", "d", "e">>
CJ == <<"U4E00", "U9FFF">>

\* Source documents [title, body].
DocPool ==
    {[title |-> <<"A", "b", "X">>, body |-> W_abx \o <<" ", "U9FFF">>],
     [title |-> <<"n", "1">>, body |-> W_abx \o <<"d", " ", " ", "-", " ", "U4E00">>],
     [title |-> <<"n", "1">>, body |-> CJ \o <<" ">> \o W_abx],
     [title |-> <<"n", "1">>, body |-> <<"U9FFF", "U4E00", "UA000">>],
     [title |-> <<"n", "1">>, body |-> W_cde9 \o <<"c", " ">> \o W_bcd9 \o <<" ">> \o W_abc9]}

\* The documents of a folder, in the order the build meets them.
Corpora == [1..NumDocs -> DocPool]

\* Raw queries: a token that is both a whole token and a prefix of one; a
\* longer token; a two-character tail of a token; a query without tokens;
\* CJK; CJK mixed with a token; a nine-character prefix of a ten-character
\* token; three long tokens in an order no document has.
EngQueries ==
    {<<" ", "a", "b", "X", " ">>,
     W_abx \o <<"d">>,
     <<"b", "x">>,
     <<"-">>,
     CJ,
     CJ \o <<" ">> \o W_abx,
     W_cde9,
     W_abc9 \o <<" ">> \o W_bcd9 \o <<" ">> \o W_cde9}

\* The two code paths of _build_index that fill the postings: the per-file
\* loop (ChatGPT exports) and _rebuild_token_indexes (Claude; Gemini calls
\* it the same way).
Sources == {"chatgpt", "claude"}

\* Limits as callers pass them.
EngLimits == {-1, 0, 201}

VARIABLES
    indexes,        \* _indexes: folder -> FolderSearchIndex, NoIndex when absent
    build_events,   \* _build_events: folder -> "none" (no Event) | "clear" | "set"
    build_errors,   \* _build_errors: folder -> str(e), NoError when absent
    building,       \* _building
    dirty,          \* _dirty
    search_cache,   \* _search_cache: insertion-ordered sequence of [key, val]
    lock,           \* _lock: the caller holding it across steps, or Free
    queue,          \* work queue of _build_executor
    worker,         \* pool threads: [st, folder, age, ok]
    pc, op, fol, rawf, qn, lim, held,   \* caller threads
    invSince,       \* history: invalidations of the caller's folder since its call began
    last,           \* the call that returned or raised in the latest step, if any
    now,            \* folder -> the latest reading of time.time() stamped on an index of it
    calls,          \* number of public calls made so far
    \* history (not read by any action's guard or effect on the program state)
    invDuring,      \* folders invalidated since their in-flight build was registered
    post,           \* folder -> "idle" | "fu" | "done_ok" | "done_fail"
    nBuilds,        \* folder -> builds registered since the last invalidated build ended
    \* the query engine on its own: one folder's documents, one query
    corpus,         \* the source documents of the folder
    query,          \* q as passed to search
    limit_arg,      \* limit as passed to search
    built,          \* kind of source -> the index _build_index makes of corpus
    found           \* kind of source -> what search returns on that index

coord == <<indexes, build_events, build_errors, building, dirty, search_cache>>
pool == <<queue, worker>>
thr == <<pc, op, fol, rawf, qn, lim, held, invSince>>
hist == <<invDuring, post, nBuilds>>
engine == <<corpus, query, limit_arg, built, found>>
vars == <<coord, lock, pool, thr, last, now, calls, hist, engine>>

IdleWorker == [st |-> "idle", folder |-> << >>, age |-> -1, ok |-> FALSE]
NoRet == [kind |-> "none", idx |-> NoIndex, res |-> NoRes, msg |-> << >>]
NoLast == [op |-> "none", fol |-> << >>, invSince |-> 0, ret |-> NoRet]

NotBuilt == [done |-> FALSE, idx |-> EmptyIndex]
NotFound == [done |-> FALSE, res |-> << >>]

\* The searcher with no call in progress and no build queued or running,
\* holding the given indexes, events and cache; clock is the latest reading
\* stamped on an index, per folder; made is the number of calls counted
\* against MaxCalls so far.
Quiescent(ix, ev, cache, clock, made) ==
    /\ indexes = ix
    /\ build_events = ev
    /\ build_errors = [f \in Folders |-> NoError]
    /\ building = {}
    /\ dirty = {}
    /\ search_cache = cache
    /\ lock = Free
    /\ queue = << >>
    /\ worker = [w \in Workers |-> IdleWorker]
    /\ pc = [t \in Callers |-> "idle"]
    /\ op = [t \in Callers |-> "none"]
    /\ fol = [t \in Callers |-> << >>]
    /\ rawf = [t \in Callers |-> << >>]
    /\ qn = [t \in Callers |-> << >>]
    /\ lim = [t \in Callers |-> [int |-> TRUE, val |-> 0]]
    /\ held = [t \in Callers |-> NoIndex]
    /\ last = NoLast
    /\ now = clock
    /\ calls = made
    /\ invSince = [t \in Callers |-> 0]
    /\ invDuring = {}
    /\ post = [f \in Folders |-> "idle"]
    /\ nBuilds = [f \in Folders |-> 0]

\* The searcher after construction.
CoordInit ==
    Quiescent([f \in Folders |-> NoIndex], [f \in Folders |-> "none"], << >>,
              [f \in Folders |-> 0], 0)

Init ==
    /\ CoordInit
    /\ corpus = << >>
    /\ query = << >>
    /\ limit_arg = 0
    /\ built = [k \in Sources |-> NotBuilt]
    /\ found = [k \in Sources |-> NotFound]

\* ------------------------------------------- coordinator bookkeeping
\* invalidate: self._dirty.add(folder)
InvalidateDirty(f) == dirty \cup {f}

\* invalidate_all: self._dirty = set(self._build_events.keys())
InvalidateAllDirty == {f \in Folders : build_events[f] # "none"}

\* ev.clear() on the folder's Event, when it has one
ClearedEvent(ev) == IF ev = "none" THEN "none" ELSE "clear"

\* Mutant: schedule_build does not look at the building set.
MutScheduleIgnoresBuilding(f) == indexes[f] # NoIndex /\ f \notin dirty

\* Mutant: schedule_build rebuilds a folder that is ready and not dirty.
MutScheduleRebuildsReady(f) == f \in building

\* schedule_build: the two early returns
ScheduleNoop(f) == f \in building \/ (indexes[f] # NoIndex /\ f \notin dirty)

\* schedule_build / ensure_index: the folder's Event is created on first use
WithEvent(evs, f) == IF evs[f] = "none" THEN [evs EXCEPT ![f] = "clear"] ELSE evs

\* _build_index, success: the new index is stored under the lock
\* Mutant: the postings of the last document are not built yet.
MutPartialPostings(n) == 0..(n - 2)

\* The doc_index values the postings are built from: enumerate(idx.docs) in
\* _rebuild_token_indexes, doc_index = len(new_idx.docs) in the per-file loop.
rebuild_token_indexes(n) == 0..(n - 1)

\* new_idx as _build_index has completed it, outside the lock, before it is
\* stored: all documents appended, all postings built, built_at stamped.
BuiltIndex(age, ts) ==
    [age |-> age, built_at |-> ts, docs |-> NumDocs,
     postings |-> rebuild_token_indexes(NumDocs)]

\* self._indexes[folder] = new_idx
Published(ix, f, age, ts) == [ix EXCEPT ![f] = BuiltIndex(age, ts)]

\* new_idx.built_at = time.time(): a reading is never below an earlier one,
\* and two readings can be equal. built_at values are only ever compared
\* between indexes of one folder (the cache key holds the folder), so the
\* readings are numbered per folder, the first one 1.
ClockReadings(f) ==
    IF now[f] = 0 THEN {1} ELSE {ts \in {now[f], now[f] + 1} : ts <= MaxTime}

\* _build_index, success: only the per-file (ChatGPT) path pops the error
ErrorsAfterPublish(errs, f, kind) ==
    IF kind = "chatgpt" THEN [errs EXCEPT ![f] = NoError] ELSE errs

\* Mutant: a failed build records its error for every folder.
MutErrorsAfterFail(errs, f, e) == [g \in Folders |-> e]

\* _build_index_safe, except: self._build_errors[folder] = str(e)
ErrorsAfterFail(errs, f, e) == [errs EXCEPT ![f] = e]

\* Mutant: the finally clause never rebuilds.
MutNeverRebuild(f) == FALSE

\* Mutant: the finally clause rebuilds after every build.
MutAlwaysRebuild(f) == TRUE

\* _build_index_safe, finally: if folder in self._dirty
ShouldRebuild(f) == f \in dirty

\* (mutation) the finally clause leaves the folder in the building set
MutNeverDiscards(f) == building \cup {f}

\* _build_index_safe, finally: discard(folder), then add(folder) when rebuilding
FinishedBuilding(f) == IF ShouldRebuild(f) THEN building \cup {f} ELSE building \ {f}

\* _build_index_safe, finally: ev.set(), then ev.clear() when rebuilding
FinishedEvents(f) ==
    [build_events EXCEPT ![f] =
        IF @ = "none" THEN "none" ELSE IF ShouldRebuild(f) THEN "clear" ELSE "set"]

\* ------------------------------------------------------------ history
\* The count of builds tells none, one and more than one apart: it stops at 2.
HistRegister(f) ==
    /\ nBuilds' = [nBuilds EXCEPT ![f] =
                      IF post[f] = "idle" THEN @ ELSE Min(@ + 1, 2)]
    /\ UNCHANGED <<invDuring, post>>

HistFinish(f, ok, rebuilt) ==
    LET p == IF f \in invDuring THEN "fu"
             ELSE IF post[f] = "fu" THEN (IF ok THEN "done_ok" ELSE "done_fail")
             ELSE post[f]
        base == IF f \in invDuring THEN 0 ELSE nBuilds[f]
    IN  /\ post' = [post EXCEPT ![f] = p]
        /\ nBuilds' = [nBuilds EXCEPT ![f] =
                          IF rebuilt /\ p # "idle" THEN Min(base + 1, 2)
                          ELSE base]
        /\ invDuring' = invDuring \ {f}

\* One more invalidation of its folder has happened since this index was built.
Older(ix) == IF ix = NoIndex THEN ix ELSE [ix EXCEPT !.age = @ + 1]

\* The folders in S are invalidated: every build in flight, every index
\* snapshot a caller holds and every cached result of theirs is one
\* invalidation older, and every call in progress on them has seen one more.
HistInvalidate(S) ==
    LET p == [f \in Folders |->
                 IF f \in S /\ (post[f] \in {"done_ok", "done_fail"} \/ f \notin building)
                 THEN "idle" ELSE post[f]]
    IN  /\ invDuring' = invDuring \cup (S \cap building)
        /\ post' = p
        /\ nBuilds' = [f \in Folders |-> IF p[f] = "idle" THEN 0 ELSE nBuilds[f]]
        /\ worker' = [w \in Workers |->
                         IF worker[w].st = "run" /\ worker[w].folder \in S
                         THEN [worker[w] EXCEPT !.age = @ + 1] ELSE worker[w]]
        /\ held' = [t \in Callers |-> IF fol[t] \in S THEN Older(held[t]) ELSE held[t]]
        /\ invSince' = [t \in Callers |->
                           IF fol[t] \in S THEN invSince[t] + 1 ELSE invSince[t]]

\* invalidate: the cache keys whose folder is f are popped (the rest stay,
\* their results one invalidation older when they belong to folder f)
PurgedCache(cache, f) ==
    LET kept == SelectSeq(cache, LAMBDA e : e.key[1] # f)
    IN  [i \in 1..Len(kept) |->
            IF strip(kept[i].key[1]) = f
            THEN [kept[i] EXCEPT !.val = Older(@)] ELSE kept[i]]

\* ------------------------------------------------------------ invalidate
\* No call returns in this step.
NoReturn == last' = NoLast

\* A call made from the host returns None in this step.
Returned(o, f) == last' = [op |-> o, fol |-> f, invSince |-> 0, ret |-> NoRet]

\* invalidate(folder), from any host thread: one lock section; a blank name
\* returns before it.
Invalidate(r) ==
    /\ calls < MaxCalls
    /\ calls' = calls + 1
    /\ LET f == strip(r) IN
        IF f = << >>
        THEN UNCHANGED <<coord, hist, pool, held, invSince>>
        ELSE /\ lock = Free
             /\ indexes' = [indexes EXCEPT ![f] = NoIndex]
             /\ build_errors' = [build_errors EXCEPT ![f] = NoError]
             /\ dirty' = InvalidateDirty(f)
             /\ build_events' = [build_events EXCEPT ![f] = ClearedEvent(@)]
             /\ search_cache' = PurgedCache(search_cache, f)
             /\ HistInvalidate({f})
             /\ UNCHANGED <<building, queue>>
    /\ Returned("invalidate", strip(r))
    /\ UNCHANGED <<lock, pc, op, fol, rawf, qn, lim, now>>

\* invalidate_all(), from any host thread: one lock section.
InvalidateAll ==
    /\ calls < MaxCalls
    /\ calls' = calls + 1
    /\ lock = Free
    /\ indexes' = [f \in Folders |-> NoIndex]
    /\ build_errors' = [f \in Folders |-> NoError]
    /\ dirty' = InvalidateAllDirty
    /\ build_events' = [f \in Folders |-> ClearedEvent(build_events[f])]
    /\ search_cache' = << >>
    /\ HistInvalidate(Folders)
    /\ Returned("invalidate_all", << >>)
    /\ UNCHANGED <<building, queue, lock, pc, op, fol, rawf, qn, lim, now>>

\* ---------------------------------------------------------- caller threads
\* Caller threads are interchangeable: a new call goes to the lowest idle one.
CanCall(t) ==
    /\ pc[t] = "idle"
    /\ \A u \in Callers : u < t => pc[u] # "idle"
    /\ calls < MaxCalls

\* The thread moves on inside its call.
Goto(t, l) ==
    /\ pc' = [pc EXCEPT ![t] = l]
    /\ UNCHANGED <<op, fol, rawf, qn, lim, held, invSince>>

\* The thread is back in the host: its locals are gone.
Reset(t) ==
    /\ pc' = [pc EXCEPT ![t] = "idle"]
    /\ op' = [op EXCEPT ![t] = "none"]
    /\ fol' = [fol EXCEPT ![t] = << >>]
    /\ rawf' = [rawf EXCEPT ![t] = << >>]
    /\ qn' = [qn EXCEPT ![t] = << >>]
    /\ lim' = [lim EXCEPT ![t] = [int |-> TRUE, val |-> 0]]
    /\ held' = [held EXCEPT ![t] = NoIndex]
    /\ invSince' = [invSince EXCEPT ![t] = 0]

\* The call of t returns or raises r to the host.
Done(t, r) ==
    /\ last' = [op |-> op[t], fol |-> fol[t], invSince |-> invSince[t], ret |-> r]
    /\ Reset(t)

\* A call that returns or raises r before it has touched anything.
DoneAtOnce(t, o, r) ==
    /\ last' = [op |-> o, fol |-> << >>, invSince |-> 0, ret |-> r]
    /\ UNCHANGED thr

\* -------------------------------------------------------- schedule_build
\* The call: the name is stripped, a blank name returns at once.
SbEnter(t, r) ==
    /\ IF strip(r) = << >>
       THEN UNCHANGED thr
       ELSE /\ pc' = [pc EXCEPT ![t] = "sb_lock"]
            /\ op' = [op EXCEPT ![t] = "schedule_build"]
            /\ fol' = [fol EXCEPT ![t] = strip(r)]
            /\ UNCHANGED <<rawf, qn, lim, held, invSince>>
    /\ NoReturn
    /\ UNCHANGED <<coord, lock, pool, now, hist>>

\* schedule_build(folder, folder_path), one of the host's counted calls
SbCall(t, r) ==
    /\ CanCall(t)
    /\ calls' = calls + 1
    /\ SbEnter(t, r)

\* The lock section of schedule_build and, when it registered a build,
\* self._submit_build(folder, folder_path) right after the lock is released
\* (the submission reads and writes nothing but the executor's queue).
SbLock(t) ==
    /\ pc[t] = "sb_lock"
    /\ lock = Free
    /\ LET f == fol[t] IN
        IF ScheduleNoop(f)
        THEN UNCHANGED <<coord, pool, hist>>
        ELSE /\ build_events' = WithEvent(build_events, f)
             /\ building' = building \cup {f}
             /\ dirty' = dirty \ {f}
             /\ queue' = Append(queue, f)
             /\ HistRegister(f)
             /\ UNCHANGED <<indexes, build_errors, search_cache, worker>>
    /\ Done(t, NoRet)
    /\ UNCHANGED <<lock, now, calls>>

\* ------------------------------------------------- pool: _build_index_safe
\* A free pool thread takes the oldest submitted build and enters
\* _build_index. Pool threads are interchangeable: the lowest free one runs it.
WStart(w) ==
    /\ queue # << >>
    /\ worker[w].st = "idle"
    /\ \A v \in Workers : v < w => worker[v].st # "idle"
    /\ worker' = [worker EXCEPT ![w] =
                     [st |-> "run", folder |-> Head(queue), age |-> 0, ok |-> FALSE]]
    /\ queue' = Tail(queue)
    /\ NoReturn
    /\ UNCHANGED <<coord, lock, thr, now, calls, hist>>

\* _build_index succeeds: the index is stored under the lock.
WPublish(w, kind) ==
    /\ worker[w].st = "run"
    /\ lock = Free
    /\ LET f == worker[w].folder IN
        /\ \E ts \in ClockReadings(f) :
            /\ indexes' = Published(indexes, f, worker[w].age, ts)
            /\ now' = [now EXCEPT ![f] = ts]
        /\ build_errors' = ErrorsAfterPublish(build_errors, f, kind)
    /\ worker' = [worker EXCEPT ![w].st = "finish", ![w].age = -1, ![w].ok = TRUE]
    /\ NoReturn
    /\ UNCHANGED <<build_events, building, dirty, search_cache,
                   lock, queue, thr, calls, hist>>

\* _build_index raises: the except clause records str(e) under the lock.
WFail(w, e) ==
    /\ worker[w].st = "run"
    /\ lock = Free
    /\ build_errors' = ErrorsAfterFail(build_errors, worker[w].folder, e)
    /\ worker' = [worker EXCEPT ![w].st = "finish", ![w].age = -1, ![w].ok = FALSE]
    /\ NoReturn
    /\ UNCHANGED <<indexes, build_events, building, dirty, search_cache,
                   lock, queue, thr, now, calls, hist>>

\* The finally clause of _build_index_safe (one lock section) and, when it
\* found the folder dirty, the follow-up self._submit_build right after it.
WFinish(w) ==
    /\ worker[w].st = "finish"
    /\ lock = Free
    /\ LET f == worker[w].folder IN
        /\ building' = FinishedBuilding(f)
        /\ build_events' = FinishedEvents(f)
        /\ dirty' = dirty \ {f}
        /\ queue' = IF ShouldRebuild(f) THEN Append(queue, f) ELSE queue
        /\ HistFinish(f, worker[w].ok, ShouldRebuild(f))
    /\ worker' = [worker EXCEPT ![w] = IdleWorker]
    /\ NoReturn
    /\ UNCHANGED <<indexes, build_errors, search_cache, lock, thr, now, calls>>

\* ----------------------------------------------------------- ensure_index
IndexOutcome(idx) == [kind |-> "index", idx |-> idx, res |-> NoRes, msg |-> << >>]
ErrorOutcome(msg) == [kind |-> "error", idx |-> NoIndex, res |-> NoRes, msg |-> msg]
ValueErrorOutcome == [kind |-> "value_error", idx |-> NoIndex, res |-> NoRes, msg |-> << >>]
NotReadyResult == [kind |-> "not_ready", idx |-> NoIndex, res |-> NoRes, msg |-> << >>]
EmptyResult == [kind |-> "empty", idx |-> NoIndex, res |-> NoRes, msg |-> << >>]
ReadyResult(idx, res) == [kind |-> "results", idx |-> idx, res |-> res, msg |-> << >>]

\* Python truthiness of self._build_errors.get(folder)
Truthy(err) == err # NoError /\ err # << >>

\* ensure_index, last lock section: the index, the recorded error, or
\* RuntimeError("index is still building")
FinalOutcome(idx, err) ==
    IF idx # NoIndex THEN IndexOutcome(idx)
    ELSE ErrorOutcome(IF Truthy(err) THEN err ELSE StillBuildingText)

\* Mutant: the synchronous path falls through to the last lock section.
MutSyncOutcome(idx, err) == FinalOutcome(idx, err)

\* ensure_index after its synchronous build: the index, or
\* RuntimeError(self._build_errors.get(folder) or "index build failed")
SyncOutcome(idx, err) ==
    IF idx # NoIndex THEN IndexOutcome(idx)
    ELSE ErrorOutcome(IF Truthy(err) THEN err ELSE BuildFailedText)

\* What the caller does with ensure_index's outcome: ensure_index itself returns
\* or raises it; search keeps the index and goes on to the cache, turns a
\* "still building" RuntimeError into ready=False and re-raises any other.
AfterEnsure(t, out) ==
    IF op[t] = "search" /\ out.kind = "index"
    THEN /\ pc' = [pc EXCEPT ![t] = "se_lookup"]
         /\ held' = [held EXCEPT ![t] = out.idx]
         /\ NoReturn
         /\ UNCHANGED <<op, fol, rawf, qn, lim, invSince>>
    ELSE Done(t, IF op[t] = "search" /\ IsStillBuildingText(out.msg)
                 THEN NotReadyResult ELSE out)

\* ensure_index called directly: a blank name raises ValueError.
EiCall(t, r) ==
    /\ CanCall(t)
    /\ calls' = calls + 1
    /\ IF strip(r) = << >>
       THEN DoneAtOnce(t, "ensure_index", ValueErrorOutcome)
       ELSE /\ pc' = [pc EXCEPT ![t] = "ei_lock"]
            /\ op' = [op EXCEPT ![t] = "ensure_index"]
            /\ fol' = [fol EXCEPT ![t] = strip(r)]
            /\ NoReturn
            /\ UNCHANGED <<rawf, qn, lim, held, invSince>>
    /\ UNCHANGED <<coord, lock, pool, now, hist>>

\* ensure_index, first lock section.
EiLock(t) ==
    /\ pc[t] = "ei_lock"
    /\ lock = Free
    /\ LET f == fol[t] IN
        IF indexes[f] # NoIndex
        THEN /\ AfterEnsure(t, IndexOutcome(indexes[f]))
             /\ UNCHANGED <<coord, lock, hist>>
        ELSE IF f \notin building
        THEN \* no build in flight: build here, inside the lock section
             /\ build_events' = WithEvent(build_events, f)
             /\ building' = building \cup {f}
             /\ lock' = t
             /\ Goto(t, "ei_sync")
             /\ HistRegister(f)
             /\ NoReturn
             /\ UNCHANGED <<indexes, build_errors, dirty, search_cache>>
        ELSE \* a build is in flight: leave the lock and wait on the Event
             /\ build_events' = WithEvent(build_events, f)
             /\ Goto(t, "ei_wait")
             /\ NoReturn
             /\ UNCHANGED <<indexes, build_errors, building, dirty, search_cache,
                            lock, hist>>
    /\ UNCHANGED <<pool, now, calls>>

\* self._build_index_safe(folder, folder_path) on the calling thread, which
\* holds the lock throughout: the build, the finally clause, the follow-up
\* submission, and ensure_index's return or raise.
EiSync(t, ok, kind, e) ==
    /\ pc[t] = "ei_sync"
    /\ lock = t
    /\ \E ts \in ClockReadings(fol[t]) :
       LET f == fol[t]
           ix1 == IF ok THEN Published(indexes, f, 0, ts) ELSE indexes
           er1 == IF ok THEN ErrorsAfterPublish(build_errors, f, kind)
                  ELSE ErrorsAfterFail(build_errors, f, e)
       IN  /\ indexes' = ix1
           /\ build_errors' = er1
           /\ now' = IF ok THEN [now EXCEPT ![f] = ts] ELSE now
           /\ building' = FinishedBuilding(f)
           /\ build_events' = FinishedEvents(f)
           /\ dirty' = dirty \ {f}
           /\ queue' = IF ShouldRebuild(f) THEN Append(queue, f) ELSE queue
           /\ HistFinish(f, ok, ShouldRebuild(f))
           /\ AfterEnsure(t, SyncOutcome(ix1[f], er1[f]))
    /\ lock' = Free
    /\ UNCHANGED <<search_cache, worker, calls>>

\* ev.wait(timeout=timeout_sec) ends (the Event was set or the timeout ran
\* out; with timeout 0 there is no wait), then ensure_index's last lock section.
EiFinal(t) ==
    /\ pc[t] = "ei_wait"
    /\ lock = Free
    /\ AfterEnsure(t, FinalOutcome(indexes[fol[t]], build_errors[fol[t]]))
    /\ UNCHANGED <<coord, lock, pool, now, calls, hist>>

\* ----------------------------------------------------------------- search
\* _search_in_index: a pure function of the index's documents, the query
\* and the limit; the result is identified by the age of the documents read.
search_in_index(idx, q, limit) == [age |-> idx.age]

CacheKey(t) == <<rawf[t], qn[t], eff_limit(lim[t].val), held[t].built_at>>
CacheHas(cache, key) == \E i \in 1..Len(cache) : cache[i].key = key
CacheGet(cache, key) == cache[CHOOSE i \in 1..Len(cache) : cache[i].key = key].val
CachePut(cache, key, val) ==
    IF CacheHas(cache, key)
    THEN [i \in 1..Len(cache) |->
             IF cache[i].key = key THEN [key |-> key, val |-> val] ELSE cache[i]]
    ELSE Append(cache, [key |-> key, val |-> val])

\* (mutation) the newest entries are dropped
MutEvictNewest(cache) == SubSeq(cache, 1, Min(Len(cache), search_cache_max))

\* while len(self._search_cache) > self._search_cache_max: pop the oldest key
RECURSIVE Evicted(_)
Evicted(cache) == IF Len(cache) > search_cache_max THEN Evicted(Tail(cache)) ELSE cache

\* search(folder, folder_path, q, limit) up to its call of ensure_index: an
\* empty normalized query returns at once; a blank folder makes ensure_index
\* raise ValueError, which search does not catch.
SearchEnter(t, r, q, l) ==
    /\ IF normalize_query(q) = << >>
       THEN DoneAtOnce(t, "search", EmptyResult)
       ELSE IF strip(r) = << >>
       THEN DoneAtOnce(t, "search", ValueErrorOutcome)
       ELSE /\ pc' = [pc EXCEPT ![t] = "ei_lock"]
            /\ op' = [op EXCEPT ![t] = "search"]
            /\ fol' = [fol EXCEPT ![t] = strip(r)]
            /\ rawf' = [rawf EXCEPT ![t] = r]
            /\ qn' = [qn EXCEPT ![t] = normalize_query(q)]
            /\ lim' = [lim EXCEPT ![t] = l]
            /\ NoReturn
            /\ UNCHANGED <<held, invSince>>
    /\ UNCHANGED <<coord, lock, pool, now, hist>>

\* search(folder, folder_path, q, limit), one of the host's counted calls
SearchCall(t, r, q, l) ==
    /\ CanCall(t)
    /\ calls' = calls + 1
    /\ SearchEnter(t, r, q, l)

\* eff_limit = max(1, min(int(limit or 50), 200)), where int() may raise, then
\* cached = self._search_cache.get(cache_key), under the lock.
SeLookup(t) ==
    /\ pc[t] = "se_lookup"
    /\ IF ~lim[t].int
       THEN Done(t, ValueErrorOutcome)
       ELSE /\ lock = Free
            /\ IF CacheHas(search_cache, CacheKey(t))
               THEN Done(t, ReadyResult(held[t], CacheGet(search_cache, CacheKey(t))))
               ELSE Goto(t, "se_store") /\ NoReturn
    /\ UNCHANGED <<coord, lock, pool, now, calls, hist>>

\* results = self._search_in_index(idx, q_norm, limit=eff_limit) outside the
\* lock, then the insertion and the eviction loop under it.
SeStore(t) ==
    /\ pc[t] = "se_store"
    /\ lock = Free
    /\ LET res == search_in_index(held[t], qn[t], eff_limit(lim[t].val)) IN
        /\ search_cache' = Evicted(CachePut(search_cache, CacheKey(t), res))
        /\ Done(t, ReadyResult(held[t], res))
    /\ UNCHANGED <<indexes, build_events, build_errors, building, dirty,
                   lock, pool, now, calls, hist>>

\* ---------------------------------------------------------- specification
Next ==
    \/ \E r \in RawNames : Invalidate(r) /\ UNCHANGED engine
    \/ InvalidateAll /\ UNCHANGED engine
    \/ \E t \in Callers, r \in RawNames : SbCall(t, r) /\ UNCHANGED engine
    \/ \E t \in Callers : SbLock(t) /\ UNCHANGED engine
    \/ \E t \in Callers, r \in RawNames : EiCall(t, r) /\ UNCHANGED engine
    \/ \E t \in Callers, r \in RawNames, q \in RawQueries, l \in Limits : SearchCall(t, r, q, l) /\ UNCHANGED engine
    \/ \E t \in Callers : EiLock(t) /\ UNCHANGED engine
    \/ \E t \in Callers, ok \in BOOLEAN, kind \in Kinds, e \in BuildErrTexts :
          EiSync(t, ok, kind, e) /\ UNCHANGED engine
    \/ \E t \in Callers : EiFinal(t) /\ UNCHANGED engine
    \/ \E t \in Callers : SeLookup(t) /\ UNCHANGED engine
    \/ \E t \in Callers : SeStore(t) /\ UNCHANGED engine
    \/ \E w \in Workers : WStart(w) /\ UNCHANGED engine
    \/ \E w \in Workers, kind \in Kinds : WPublish(w, kind) /\ UNCHANGED engine
    \/ \E w \in Workers, e \in BuildErrTexts : WFail(w, e) /\ UNCHANGED engine
    \/ \E w \in Workers : WFinish(w) /\ UNCHANGED engine

Spec == Init /\ [][Next]_vars

\* The same program with callers that may also pass an invalid limit.
LimitSpec ==
    Init /\ [][\/ Next
               \/ \E t \in Callers, r \in RawNames, q \in RawQueries :
                     SearchCall(t, r, q, InvalidLimit) /\ UNCHANGED engine]_vars

\* ------------------------------------------------------------- polling
\* The host as a polling client: it calls schedule_build and search on one
\* folder any number of times (as /api/search does while a result is not
\* ready), and invalidates, any folder, a bounded number of times.
Poll(t, r) ==
    /\ pc[t] = "idle"
    /\ \A u \in Callers : u < t => pc[u] # "idle"
    /\ UNCHANGED calls
    /\ \/ SbEnter(t, r)
       \/ SearchEnter(t, r, <<"X">>, [int |-> TRUE, val |-> DefaultLimit])

PollNext ==
    \/ calls < MaxInvalidations /\ Invalidate(<<"a">>) /\ UNCHANGED engine
    \/ calls < MaxInvalidations /\ InvalidateAll /\ UNCHANGED engine
    \/ \E t \in Callers : Poll(t, <<"a">>) /\ UNCHANGED engine
    \/ \E t \in Callers : SbLock(t) /\ UNCHANGED engine
    \/ \E t \in Callers : EiLock(t) /\ UNCHANGED engine
    \/ \E t \in Callers, ok \in BOOLEAN, kind \in Kinds, e \in BuildErrTexts :
          EiSync(t, ok, kind, e) /\ UNCHANGED engine
    \/ \E t \in Callers : EiFinal(t) /\ UNCHANGED engine
    \/ \E t \in Callers : SeLookup(t) /\ UNCHANGED engine
    \/ \E t \in Callers : SeStore(t) /\ UNCHANGED engine
    \/ \E w \in Workers : WStart(w) /\ UNCHANGED engine
    \/ \E w \in Workers, kind \in Kinds : WPublish(w, kind) /\ UNCHANGED engine
    \/ \E w \in Workers, e \in BuildErrTexts : WFail(w, e) /\ UNCHANGED engine
    \/ \E w \in Workers : WFinish(w) /\ UNCHANGED engine

\* Every thread inside a call gets to run, and the pool runs every build
\* submitted to it to its end: _build_index is a finite loop over the files.
PollSpec ==
    /\ Init /\ [][PollNext]_vars
    /\ \A t \in Callers :
          WF_vars((\/ SbLock(t) \/ EiLock(t) \/ EiFinal(t) \/ SeLookup(t) \/ SeStore(t)
                   \/ \E ok \in BOOLEAN, kind \in Kinds, e \in BuildErrTexts :
                         EiSync(t, ok, kind, e))
                  /\ UNCHANGED engine)
    /\ \A w \in Workers :
          WF_vars((\/ WStart(w) \/ WFinish(w)
                   \/ \E kind \in Kinds : WPublish(w, kind)
                   \/ \E e \in BuildErrTexts : WFail(w, e))
                  /\ UNCHANGED engine)

\* ------------------------------------------------------ the full cache
\* The query of the i-th cached search: i - 1 in binary, "y" for 0 and "z"
\* for 1, eight characters (enough for search_cache_max distinct queries).
NthQuery(i) == [b \in 1..8 |-> IF ((i - 1) \div (2 ^ (b - 1))) % 2 = 1 THEN "z" ELSE "y"]

\* The cache after search_cache_max searches of folder "a" with distinct
\* queries on its index (built once, stamped 1), oldest first.
FullCache ==
    [i \in 1..search_cache_max |->
        [key |-> <<<<"a">>, NthQuery(i), DefaultLimit, 1>>,
         val |-> search_in_index(BuiltIndex(0, 1), NthQuery(i), DefaultLimit)]]

\* The searcher after those searches: folder "a" built by the first of
\* them, the cache full, every caller back. The searches count as one call
\* against MaxCalls.
WarmInit ==
    /\ Quiescent([f \in Folders |-> IF f = <<"a">> THEN BuiltIndex(0, 1) ELSE NoIndex],
                 [f \in Folders |-> IF f = <<"a">> THEN "set" ELSE "none"],
                 FullCache,
                 [f \in Folders |-> IF f = <<"a">> THEN 1 ELSE 0], 1)
    /\ corpus = << >>
    /\ query = << >>
    /\ limit_arg = 0
    /\ built = [k \in Sources |-> NotBuilt]
    /\ found = [k \in Sources |-> NotFound]

WarmSpec == WarmInit /\ [][Next]_vars

\* ------------------------------------------------------ the query engine
\* _build_index for a folder of the given kind holding corpus.
BuildIndex(kind) ==
    /\ ~built[kind].done
    /\ built' = [built EXCEPT ![kind] = [done |-> TRUE, idx |-> BuildIndexOf(kind, corpus)]]
    /\ UNCHANGED <<coord, lock, pool, thr, last, now, calls, hist,
                   corpus, query, limit_arg, found>>

\* search() on the index of that folder: q_norm = _normalize_query(q), an
\* empty q_norm returns [], else _search_in_index with the clamped limit.
SearchIndex(kind) ==
    /\ built[kind].done
    /\ ~found[kind].done
    /\ found' = [found EXCEPT ![kind] =
                    [done |-> TRUE,
                     res |-> IF normalize_query(query) = << >> THEN << >>
                             ELSE SearchInIndex(built[kind].idx, normalize_query(query),
                                                eff_limit(limit_arg))]]
    /\ UNCHANGED <<coord, lock, pool, thr, last, now, calls, hist,
                   corpus, query, limit_arg, built>>

EngineInit ==
    /\ CoordInit
    /\ corpus \in Corpora
    /\ query \in EngQueries
    /\ limit_arg \in EngLimits
    /\ built = [k \in Sources |-> NotBuilt]
    /\ found = [k \in Sources |-> NotFound]

EngineNext ==
    \/ \E kind \in Sources : BuildIndex(kind)
    \/ \E kind \in Sources : SearchIndex(kind)

EngineSpec == EngineInit /\ [][EngineNext]_vars

\* The builds alone: every folder content, one query.
PostingsInit ==
    /\ CoordInit
    /\ corpus \in Corpora
    /\ query = CJ \o <<" ">> \o W_abx
    /\ limit_arg = DefaultLimit
    /\ built = [k \in Sources |-> NotBuilt]
    /\ found = [k \in Sources |-> NotFound]

PostingsSpec == PostingsInit /\ [][EngineNext]_vars

\* ------------------------------------------------------------ properties
\* Builds of f that are queued or running: submitted to the pool and not yet
\* started, inside _build_index_safe on a pool thread, or inside it on a
\* caller's thread (ensure_index's synchronous build).
InFlight(f) ==
    Cardinality({i \in 1..Len(queue) : queue[i] = f})
    + Cardinality({w \in Workers : worker[w].st \in {"run", "finish"} /\ worker[w].folder = f})
    + Cardinality({t \in Callers : pc[t] = "ei_sync" /\ fol[t] = f})

\* C1: a search that began after an invalidation of its folder had returned
\* never returns results computed on an index whose build had started before
\* that invalidation (the index is older than the search).
C1_SearchNeverUsesOlderIndex ==
    (last.op = "search" /\ last.ret.kind = "results")
        => last.ret.res.age <= last.invSince

\* C2: once a build that was invalidated in flight has finished, and until the
\* follow-up build has finished, the folder is in the building set and its
\* follow-up build is queued or running: it never looks settled in between.
C2_FollowUpKeepsBuilding ==
    \A f \in Folders : post[f] = "fu" => (f \in building /\ InFlight(f) = 1)

C2_Witness == \E f \in Folders : post[f] = "fu" /\ indexes[f] # NoIndex

\* C3: whenever a folder is not building and has an index, the build that
\* produced the index started after the latest invalidation of the folder.
C3_SettledIndexIsFresh ==
    \A f \in Folders : (f \notin building /\ indexes[f] # NoIndex) => indexes[f].age = 0

C5_DirtyOnlyWhileBuilding == dirty \subseteq building

\* C6: at most one build of a folder is queued or running, and exactly one
\* if and only if the folder is in the building set.
C6_BuildsSerialized ==
    \A f \in Folders : InFlight(f) <= 1 /\ (InFlight(f) = 1 <=> f \in building)

C6_Witness ==
    /\ building = Folders
    /\ \E w \in Workers : worker[w].st = "run"
    /\ \E t \in Callers : pc[t] = "ei_wait"

\* C7: no thread holds the coordinator lock while it executes a build.
C7_NoLockDuringBuild == lock # Free => pc[lock] # "ei_sync"

\* C8: a thread inside schedule_build never has to wait for a build: the lock
\* it needs is not held by a thread that is executing a build.
C8_ScheduleBuildNeverWaitsForBuild ==
    \A t \in Callers :
        pc[t] = "sb_lock" => ~(lock # Free /\ pc[lock] = "ei_sync")

\* C9: schedule_build on a folder that is building, or that has an index and
\* is not dirty, changes nothing of the coordinator or the pool; in every
\* other state it adds the folder to the building set and submits one build.
C9_ScheduleBuildEffect ==
    [][\A t \in Callers :
          (pc[t] = "sb_lock" /\ pc'[t] # "sb_lock") =>
             IF fol[t] \in building \/ (indexes[fol[t]] # NoIndex /\ fol[t] \notin dirty)
             THEN UNCHANGED <<coord, pool>>
             ELSE /\ building' = building \cup {fol[t]}
                  /\ queue' = Append(queue, fol[t])
                  /\ UNCHANGED <<indexes, build_errors, search_cache, worker>>]_vars

C9_Witness ==
    /\ last.op = "schedule_build"
    /\ last.fol \in building
    /\ InFlight(last.fol) = 1
    /\ \A i \in 1..Len(queue) : queue[i] # last.fol

\* C10: ensure_index returns the index at once when the folder has one; when
\* the folder has no index and no build in flight it builds on the calling
\* thread, and then returns the index that build stored or raises that build's
\* error (str(e), or "index build failed"), never "index is still building".
C10_EnsureIndexOutcome ==
    [][\A t \in Callers :
          /\ (pc[t] = "ei_lock" /\ pc'[t] # "ei_lock" /\ indexes[fol[t]] # NoIndex) =>
                /\ UNCHANGED <<coord, pool, lock>>
                /\ op[t] = "ensure_index" =>
                      (last'.op = "ensure_index" /\ last'.ret.kind = "index"
                       /\ last'.ret.idx = indexes[fol[t]])
                /\ op[t] = "search" => (pc'[t] = "se_lookup" /\ held'[t] = indexes[fol[t]])
          /\ (pc[t] = "ei_lock" /\ pc'[t] # "ei_lock" /\ indexes[fol[t]] = NoIndex
                 /\ fol[t] \notin building) =>
                (pc'[t] = "ei_sync" /\ UNCHANGED queue)
          /\ (pc[t] = "ei_sync" /\ pc'[t] # "ei_sync" /\ op[t] = "ensure_index") =>
                /\ last'.op = "ensure_index"
                /\ last'.ret.kind \in {"index", "error"}
                /\ last'.ret.kind = "index" =>
                      (indexes[fol[t]] = NoIndex /\ last'.ret.idx = indexes'[fol[t]]
                       /\ last'.ret.idx # NoIndex)
                /\ last'.ret.kind = "error" =>
                      /\ indexes'[fol[t]] = NoIndex
                      /\ last'.ret.msg # StillBuildingText
                      /\ last'.ret.msg \in {build_errors'[fol[t]], BuildFailedText}
                      /\ last'.ret.msg # << >>]_vars

C10_Witness ==
    /\ last.op = "ensure_index"
    /\ last.ret.kind = "error"
    /\ last.ret.msg = BuildFailedText

\* A build of f has been submitted or is inside _build_index, with no outcome
\* stored yet.
BuildPending(f) ==
    \/ \E i \in 1..Len(queue) : queue[i] = f
    \/ \E w \in Workers : worker[w].st = "run" /\ worker[w].folder = f

\* C11: when the wait of ensure_index ends while the build of its folder is
\* still in flight, ensure_index raises "index is still building" and search
\* returns ready=False, whatever was recorded for the folder before.
C11_WaitEndsStillBuilding ==
    [][\A t \in Callers :
          (pc[t] = "ei_wait" /\ pc'[t] # "ei_wait" /\ BuildPending(fol[t])) =>
             /\ op[t] = "ensure_index" => last'.ret = ErrorOutcome(StillBuildingText)
             /\ op[t] = "search" => last'.ret = NotReadyResult]_vars

\* The timeout of ev.wait(timeout=timeout_sec) runs out, and the waiting thread
\* enters its last lock section as soon as the lock can be taken; nothing
\* obliges a build, on the pool or on a caller's thread, to finish.
LiveSpec == Spec /\ \A t \in Callers : WF_vars(EiFinal(t) /\ UNCHANGED engine)

\* C12: a call of ensure_index that waits for a build it did not start always
\* completes, whether or not any build of any folder ever finishes.
C12_WaitAlwaysEnds ==
    \A t \in Callers : (pc[t] = "ei_wait") ~> (pc[t] # "ei_wait")

\* C13: a build that raises stores no index and records its exception text;
\* when it has finished (and the folder was not invalidated meanwhile) the
\* folder has left the building set and its Event is set; and a waiting
\* ensure_index that then reaches its last lock section raises that recorded
\* error, which search re-raises (neither reports "still building").
C13_FailedBuildSurfaces ==
    [][/\ \A w \in Workers :
            (worker[w].st = "run" /\ worker'[w].st = "finish" /\ ~worker'[w].ok) =>
                (indexes' = indexes /\ build_errors'[worker[w].folder] \in BuildErrTexts)
       /\ \A w \in Workers :
            (worker[w].st = "finish" /\ ~worker[w].ok /\ worker'[w].st = "idle"
                 /\ worker[w].folder \notin dirty) =>
                (worker[w].folder \notin building'
                 /\ build_events'[worker[w].folder] \in {"none", "set"})
       /\ \A t \in Callers :
            (pc[t] = "ei_wait" /\ pc'[t] # "ei_wait" /\ fol[t] \notin building
                 /\ indexes[fol[t]] = NoIndex /\ build_errors[fol[t]] # NoError) =>
                last'.ret = ErrorOutcome(build_errors[fol[t]])]_vars

\* Nothing of any folder other than f changes in this step: its index, error,
\* Event, building and dirty marks, its queued builds, the pool threads that
\* work on it; and no cache entry changes.
OthersUnchanged(f) ==
    /\ \A g \in Folders \ {f} :
          /\ indexes'[g] = indexes[g]
          /\ build_errors'[g] = build_errors[g]
          /\ build_events'[g] = build_events[g]
          /\ (g \in building') = (g \in building)
          /\ (g \in dirty') = (g \in dirty)
    /\ SelectSeq(queue', LAMBDA g : g # f) = SelectSeq(queue, LAMBDA g : g # f)
    /\ \A w \in Workers : worker[w].folder # f => worker'[w] = worker[w]
    /\ search_cache' = search_cache

\* C14: the steps of a failed build of a folder (recording the error, the
\* finally clause, on the pool or on a caller's thread) change nothing of any
\* other folder nor of the cache, and leave the lock free and the pool thread
\* idle for the other folders' builds and searches.
C14_FailureIsLocal ==
    [][/\ \A w \in Workers :
            (worker[w].st = "run" /\ worker'[w].st = "finish" /\ ~worker'[w].ok) =>
                (OthersUnchanged(worker[w].folder) /\ lock' = Free)
       /\ \A w \in Workers :
            (worker[w].st = "finish" /\ ~worker[w].ok /\ worker'[w].st = "idle") =>
                (OthersUnchanged(worker[w].folder) /\ lock' = Free
                 /\ worker'[w] = IdleWorker)
       /\ \A t \in Callers :
            (pc[t] = "ei_sync" /\ pc'[t] # "ei_sync" /\ indexes'[fol[t]] = NoIndex) =>
                (OthersUnchanged(fol[t]) /\ lock' = Free)]_vars

C14_Witness ==
    /\ last.op \in {"ensure_index", "search"}
    /\ last.ret.kind = "error"
    /\ last.ret.msg \in {BuildFailedText, <<"folder", "not", "found">>}
    /\ \E g \in Folders \ {last.fol} : g \in building

\* A build of f stores its index in this step (on the pool, or on the thread
\* of a caller of ensure_index).
PublishedNow(f) ==
    \/ \E w \in Workers :
          worker[w].st = "run" /\ worker[w].folder = f
          /\ worker'[w].st = "finish" /\ worker'[w].ok
    \/ \E t \in Callers :
          pc[t] = "ei_sync" /\ fol[t] = f /\ pc'[t] # "ei_sync" /\ indexes'[f] # NoIndex

\* C15: a recorded error of a folder is removed only by a step in which a
\* build of the folder stores its index, and every such step removes it.
C15_ErrorClearedOnlyBySuccess ==
    [][\A f \in Folders :
          /\ (build_errors[f] # NoError /\ build_errors'[f] = NoError) => PublishedNow(f)
          /\ PublishedNow(f) => build_errors'[f] = NoError]_vars

\* C16: every index a build stores for a folder carries a built_at strictly
\* greater than the built_at of every index stored for that folder before.
C16_VersionsIncrease ==
    [][\A f \in Folders :
          (PublishedNow(f) /\ now[f] > 0) => indexes'[f].built_at > now[f]]_vars

\* C17: the results a search returns, cached or not, are those the query
\* engine computes on the index snapshot that ensure_index returned to this
\* call: they never come from another generation of the folder's documents.
C17_CacheServesOwnGeneration ==
    (last.op = "search" /\ last.ret.kind = "results")
        => last.ret.res = search_in_index(last.ret.idx, << >>, DefaultLimit)

\* What the program can read of an index object.
Content(ix) == [built_at |-> ix.built_at, docs |-> ix.docs, postings |-> ix.postings]

\* The postings cover all the documents, and every doc_index is < len(docs).
Complete(ix) ==
    /\ \A i \in ix.postings : i >= 0 /\ i < ix.docs
    /\ \A i \in 0..(ix.docs - 1) : i \in ix.postings

EntriesOf(cache, f) == SelectSeq(cache, LAMBDA e : strip(e.key[1]) = f)

\* C19: when invalidate(f) returns, f has no index and the cache holds no
\* entry of f, while the index, error, building and dirty marks and the cache
\* entries of every other folder are as before; invalidate with a blank name
\* changes nothing.
C19_InvalidateEffect ==
    [][last'.op = "invalidate" =>
          IF last'.fol = << >>
          THEN UNCHANGED <<coord, pool>>
          ELSE /\ indexes'[last'.fol] = NoIndex
               /\ EntriesOf(search_cache', last'.fol) = << >>
               /\ \A g \in Folders \ {last'.fol} :
                     /\ indexes'[g] = indexes[g]
                     /\ build_errors'[g] = build_errors[g]
                     /\ (g \in building') = (g \in building)
                     /\ (g \in dirty') = (g \in dirty)
                     /\ EntriesOf(search_cache', g) = EntriesOf(search_cache, g)]_vars

\* C20: when invalidate_all returns, no folder has an index or a recorded
\* error, the cache is empty, every folder with a build in flight is dirty,
\* and every folder that was dirty before is still dirty.
C20_InvalidateAllEffect ==
    [][last'.op = "invalidate_all" =>
          /\ \A f \in Folders : indexes'[f] = NoIndex /\ build_errors'[f] = NoError
          /\ search_cache' = << >>
          /\ building' = building
          /\ \A f \in building : f \in dirty'
          /\ dirty \subseteq dirty']_vars

\* ------------------------------------------------- query engine properties
\* The full ranked list of the query on an index, before truncation.
AllHits(idx) == SearchInIndex(idx, normalize_query(query), Len(idx.docs))

C22_RebuildIdempotent ==
    \A j \in Sources, k \in Sources :
        /\ built[j].done /\ built[k].done => built[j].idx = built[k].idx
        /\ found[j].done /\ found[k].done => found[j].res = found[k].res

\* Both builds are done, a prefix key lists two documents, the query hits.
C22_Witness ==
    /\ \A k \in Sources : built[k].done /\ found[k].done /\ found[k].res # << >>
    /\ \E p \in DOMAIN built["chatgpt"].idx.token_prefix_index :
           Cardinality(built["chatgpt"].idx.token_prefix_index[p]) = 2

\* C23: a search whose query is empty after normalisation (nothing but white
\* space) returns ready with no results in the step it is called in, in every
\* state, and changes nothing of the coordinator, the cache, the lock, the
\* pool or any caller's position.
C23_EmptyQueryAtOnce ==
    [][calls' # calls =>
          \A t \in {u \in Callers : CanCall(u)}, r \in RawNames, l \in Limits,
             q \in {x \in RawQueries : \A i \in 1..Len(x) : IsSpace(x[i])} :
              SearchCall(t, r, q, l)
              => /\ last' = [op |-> "search", fol |-> << >>, invSince |-> 0,
                             ret |-> EmptyResult]
                 /\ UNCHANGED <<coord, lock, pool, thr>>]_vars

\* Such a search has just returned while another caller holds the lock over
\* a synchronous build.
C23_Witness ==
    /\ last.op = "search" /\ last.ret = EmptyResult
    /\ lock # Free
    /\ building # {}

\* C24: for every integer limit the search is answered, with the first
\* min(200, max(1, limit)) entries of the ranked list (so one entry for
\* limit 0 or below, 200 for limits above 200).
C24_ClampToNearestBound ==
    \A k \in Sources :
        found[k].done =>
            Len(found[k].res) =
                Min(Min(LimitMax, Max(1, limit_arg)), Len(AllHits(built[k].idx)))

\* The doc_index values of a result list.
Ids(res) == {res[i].id : i \in 1..Len(res)}

\* C25: prefix matching. When the query is one ASCII token q of three or more
\* characters, every document whose text has a token with q as a proper
\* prefix is returned, unless the limit cut the list, whether or not another
\* document has q as a whole token.
C25_PrefixMatching ==
    \A k \in Sources :
        LET q == normalize_query(query)
            docs == built[k].idx.docs
        IN  (found[k].done /\ findall(q) = <<q>> /\ Len(q) >= ASCII_PREFIX_MIN_LEN)
            => \A di \in 0..(Len(docs) - 1) :
                   (\E t \in SeqRange(findall(docs[di + 1].text_norm)) :
                        Len(t) > Len(q) /\ SubSeq(t, 1, Len(q)) = q)
                   => (di \in Ids(found[k].res)
                       \/ Len(found[k].res) = eff_limit(limit_arg))

\* The documents whose normalized text contains the normalized query.
Matching(idx) ==
    {di \in 0..(Len(idx.docs) - 1) : find(idx.docs[di + 1].text_norm, normalize_query(query)) >= 0}

\* C26: for a query with at least one CJK character the returned documents
\* are exactly those whose normalized text contains the normalized query,
\* unless the limit cut the list; an empty intersection of the CJK postings
\* gives no results even when the query's ASCII tokens have postings.
C26_CjkExact ==
    \A k \in Sources :
        (found[k].done /\ \E i \in 1..Len(query) : is_cjk(query[i]))
        => /\ Ids(found[k].res) \subseteq Matching(built[k].idx)
           /\ \/ Ids(found[k].res) = Matching(built[k].idx)
              \/ Len(found[k].res) = eff_limit(limit_arg)

\* A CJK query with an ASCII token: no document has all its CJK characters,
\* a document has the token, nothing is returned.
C26_Witness ==
    /\ query = CJ \o <<" ">> \o W_abx
    /\ \A k \in Sources : found[k].done /\ found[k].res = << >>
    /\ MapGet(built["claude"].idx.token_index, W_abx) # {}
    /\ MapGet(built["claude"].idx.cjk_char_index, <<"U4E00">>) # {}
    /\ MapGet(built["claude"].idx.cjk_char_index, <<"U9FFF">>) # {}
    /\ MapGet(built["claude"].idx.cjk_char_index, <<"U4E00">>)
           \cap MapGet(built["claude"].idx.cjk_char_index, <<"U9FFF">>) = {}

\* The normalized title of a result contains the normalized query.
InTitle(r) == find(normalize_query(r.title), normalize_query(query)) >= 0

\* C27: title match outranks body-only match. For a query that is not a long
\* multi-token ASCII query, a result whose title contains the query scores
\* 100..150, any other result scores at most 50, and no body-only result
\* stands before a title-matching one.
C27_TitleOutranksBody ==
    \A k \in Sources :
        (found[k].done /\ ~is_long_ascii_query(normalize_query(query)))
        => LET res == found[k].res IN
           /\ \A i \in 1..Len(res) :
                  IF InTitle(res[i])
                  THEN TitleScore <= res[i].score /\ res[i].score <= TitleScore + PosScoreMax
                  ELSE res[i].score <= PosScoreMax
           /\ \A i \in 1..Len(res), j \in 1..Len(res) :
                  (InTitle(res[j]) /\ ~InTitle(res[i])) => j < i

\* The second document matches in the title, the first in the body only:
\* the second is returned first.
C27_Witness ==
    /\ found["chatgpt"].done
    /\ Len(found["chatgpt"].res) = 2
    /\ found["chatgpt"].res[1].id = 1 /\ InTitle(found["chatgpt"].res[1])
    /\ found["chatgpt"].res[2].id = 0 /\ ~InTitle(found["chatgpt"].res[2])

\* C30: substring soundness. For a query that is not a long multi-token
\* ASCII query, the normalized text of every returned document contains the
\* whole normalized query, whichever postings gave the candidate.
C30_SubstringSound ==
    \A k \in Sources :
        (found[k].done /\ ~is_long_ascii_query(normalize_query(query)))
        => Ids(found[k].res) \subseteq Matching(built[k].idx)

\* A document found through the prefix postings: no document has the query
\* as a whole token, the second one has a longer token that starts with it.
C30_Witness ==
    /\ found["claude"].done
    /\ query = W_cde9
    /\ MapGet(built["claude"].idx.token_index, W_cde9) = {}
    /\ Ids(found["claude"].res) = {1}

\* The tokens of a text by definition: the maximal runs of characters 0-9,
\* a-z that are at least two characters long.
IsRefChar(ch) ==
    \/ (48 <= CodePoint(ch) /\ CodePoint(ch) <= 57)
    \/ (97 <= CodePoint(ch) /\ CodePoint(ch) <= 122)

RefTokens(text) ==
    LET starts == {i \in 1..Len(text) :
                      IsRefChar(text[i]) /\ (i = 1 \/ ~IsRefChar(text[i - 1]))}
        ends == {j \in 1..Len(text) :
                    IsRefChar(text[j]) /\ (j = Len(text) \/ ~IsRefChar(text[j + 1]))}
    IN  {SubSeq(text, ij[1], ij[2]) : ij \in
            {p \in starts \X ends :
                p[2] >= p[1] + 1 /\ \A n \in p[1]..p[2] : IsRefChar(text[n])}}

\* C29: on every built index, of either kind of source, the postings are
\* what the definitions say: a document is listed under token t iff t is a
\* maximal run of 0-9a-z of length >= 2 in its normalized text; under prefix
\* p iff p has 3..8 characters and starts such a token of the document of
\* length >= 3; under character c iff c is in U+4E00..U+9FFF and occurs in
\* the document.
C29_PostingsAreReference ==
    \A k \in Sources :
        built[k].done =>
        LET ix == built[k].idx
            ds == 0..(Len(ix.docs) - 1)
            ref == [d \in ds |-> RefTokens(ix.docs[d + 1].text_norm)]
            \* prefixes of 3..8 characters (a token shorter than 3 has none)
            heads == [d \in ds |->
                         UNION {{SubSeq(t, 1, n) : n \in 3..Min(8, Len(t))} : t \in ref[d]}]
            cjk == [d \in ds |->
                       {<<c>> : c \in {x \in SeqRange(ix.docs[d + 1].text_norm) :
                                          19968 <= CodePoint(x) /\ CodePoint(x) <= 40959}}]
        IN  /\ ix.token_index =
                   [t \in UNION {ref[d] : d \in ds} |-> {d \in ds : t \in ref[d]}]
            /\ ix.token_prefix_index =
                   [p \in UNION {heads[d] : d \in ds} |-> {d \in ds : p \in heads[d]}]
            /\ ix.cjk_char_index =
                   [c \in UNION {cjk[d] : d \in ds} |-> {d \in ds : c \in cjk[d]}]

\* An index of each kind holding a ten-character token (six prefix keys), a
\* two-character token, both ends of the CJK range and the character after it.
C29_Witness ==
    \A k \in Sources :
        /\ built[k].done
        /\ MapGet(built[k].idx.token_index, W_cde9 \o <<"c">>) = {1}
        /\ MapGet(built[k].idx.token_index, <<"n", "1">>) = {0, 1}
        /\ MapGet(built[k].idx.cjk_char_index, <<"U4E00">>) = {0}
        /\ MapGet(built[k].idx.cjk_char_index, <<"U9FFF">>) = {0}
        /\ "UA000" \in SeqRange(built[k].idx.docs[1].text_norm)

\* C28: the result cache is capacity-bounded. It never holds more than 256
\* entries; an insertion that would exceed the bound removes entries from the
\* oldest end only, and the entry of the search that inserted stays.
C28_CacheBounded ==
    [][/\ Len(search_cache') <= search_cache_max
       /\ \A t \in Callers :
              SeStore(t) =>
                  LET put == CachePut(search_cache, CacheKey(t),
                                      search_in_index(held[t], qn[t], eff_limit(lim[t].val)))
                  IN  /\ \E n \in 0..Len(put) : search_cache' = SubSeq(put, n + 1, Len(put))
                      /\ CacheHas(search_cache', CacheKey(t))]_vars

\* A search has just stored its result in the full cache: the oldest entry
\* is gone, the new one is the last of 256.
C28_Witness ==
    /\ last.op = "search" /\ last.ret.kind = "results"
    /\ Len(search_cache) = search_cache_max
    /\ search_cache[1] = FullCache[2]
    /\ search_cache[search_cache_max].key[2] = <<"x">>

\* C31: full-scan fallback. For a query without CJK characters whose tokens
\* have no postings, neither exact nor by prefix, every document is a
\* candidate: the documents whose normalized text contains the normalized
\* query are returned, unless the limit cut the list.
C31_FullScanFallback ==
    \A k \in Sources :
        LET q == normalize_query(query) IN
        (/\ found[k].done
         /\ cjk_terms(q) = << >>
         /\ \A i \in 1..Len(primary_tokens(q)) :
                TokenPosting(built[k].idx, primary_tokens(q)[i]) = {})
        => \/ Ids(found[k].res) = Matching(built[k].idx)
           \/ Len(found[k].res) = eff_limit(limit_arg)

\* The verified matches of the query on an index: the candidates that pass
\* the verification.
Verified(idx) ==
    {di \in Candidates(idx, normalize_query(query)) :
        Verify(idx.docs[di + 1], normalize_query(query)).hit}

\* C32: the results are the top-scoring matches in descending order. Scores
\* do not increase along the list, no document occurs twice, the list has
\* min(limit, number of verified matches) entries, each a verified match with
\* its score, and no verified match left out scores above the last entry.
C32_TopScoringDescending ==
    \A k \in Sources :
        found[k].done =>
        LET res == found[k].res
            idx == built[k].idx
            Score(di) == Verify(idx.docs[di + 1], normalize_query(query)).score
        IN  /\ \A i \in 1..Len(res), j \in 1..Len(res) :
                   i < j => res[i].score >= res[j].score /\ res[i].id # res[j].id
            /\ Len(res) = Min(eff_limit(limit_arg), Cardinality(Verified(idx)))
            /\ \A i \in 1..Len(res) :
                   res[i].id \in Verified(idx) /\ res[i].score = Score(res[i].id)
            /\ \A di \in Verified(idx) \ Ids(res) : Score(di) <= res[Len(res)].score

\* Two matches with different scores and room for one: the second document,
\* which scores higher, is the one returned.
C32_Witness ==
    /\ found["claude"].done
    /\ limit_arg = -1
    /\ Verified(built["claude"].idx) = {0, 1}
    /\ Ids(found["claude"].res) = {1}
    /\ AllHits(built["claude"].idx)[2].score < found["claude"].res[1].score

\* C33: a search with an invalid limit is rejected before the index is
\* touched. The call (with a query that is not blank) raises in the step it is
\* made in: it does not enter ensure_index, and the coordinator, the cache,
\* the lock, the pool and every caller's position stay as they are.
C33_InvalidLimitRejectedFirst ==
    [][calls' # calls =>
          \A t \in {u \in Callers : CanCall(u)}, r \in RawNames,
             q \in {x \in RawQueries : normalize_query(x) # << >>} :
              SearchCall(t, r, q, InvalidLimit)
              => /\ last'.op = "search"
                 /\ last'.ret = ValueErrorOutcome
                 /\ UNCHANGED <<coord, lock, pool, thr>>]_vars

\* C34: polling makes progress. When a search of the polled folder has
\* returned ready=false and from some point on nothing is invalidated, no
\* build fails and the host keeps calling search on the folder, a later search
\* of it returns ready=true. And ready=false is only ever returned by a call
\* that found a build of its folder in flight or pending when it entered
\* ensure_index.
C34_PollingMakesProgress ==
    /\ (/\ <>[][/\ ~ \E r \in RawNames : Invalidate(r)
                /\ ~ InvalidateAll
                /\ ~ \E w \in Workers, e \in BuildErrTexts : WFail(w, e)
                /\ ~ \E t \in Callers, kind \in Kinds, e \in BuildErrTexts :
                        EiSync(t, FALSE, kind, e)]_vars
        /\ []<><<\E t \in Callers :
                    /\ pc[t] = "idle" /\ pc'[t] = "ei_lock"
                    /\ op'[t] = "search" /\ fol'[t] = <<"a">>>>_vars)
       => ((last.op = "search" /\ last.ret = NotReadyResult)
           ~> (last.op = "search" /\ last.ret.kind = "results"))
    /\ [][\A t \in Callers :
             /\ (pc[t] # "idle" /\ pc'[t] = "idle" /\ last'.ret = NotReadyResult)
                    => pc[t] = "ei_wait"
             /\ (pc[t] = "ei_lock" /\ pc'[t] = "ei_wait")
                    => InFlight(fol[t]) >= 1]_vars

\* A search has just returned ready=false while the follow-up build of its
\* folder is running.
C34_Witness ==
    /\ calls = MaxInvalidations
    /\ last.op = "search"
    /\ last.ret = NotReadyResult
    /\ \E w \in Workers : worker[w].st = "run" /\ worker[w].folder = last.fol
    /\ post[last.fol] = "fu"

C36_EventClearWhileBuilding ==
    \A f \in Folders :
        (f \in building /\ indexes[f] = NoIndex) => build_events[f] # "set"

====
